---------------------------- MODULE Spec2Model ----------------------------
(***************************************************************************)
(* Model of py_xre_tiff: read_xre_tif, write_xre_tif, get_metadata and     *)
(* _extract_slope_offset of src/py_xre_tiff/__init__.py.                   *)
(*                                                                         *)
(* Numbers.  A Python float / numpy element is modelled as an exact        *)
(* decimal m * 10^e (kind "fin"), or one of the non-finite floats "inf",   *)
(* "ninf", "nan".  The arithmetic on these numbers is exact; the binary    *)
(* rounding of float32 is modelled apart, for the round trip of a sample   *)
(* through line 45 and line 81 (float32 arithmetic, SpecF32).              *)
(*                                                                         *)
(* Text.  The TIFF ImageDescription (tag 270) is a sequence of one-        *)
(* character strings, so that formatting and the regular-expression search *)
(* are computed on the characters themselves.                              *)
(*                                                                         *)
(* Specifications.  Spec: whole calls of the three functions on two paths. *)
(* SpecCalls: two callers on distinct paths whose calls interleave step by *)
(* step.  SpecF32: one sample read with rescale=True and written back.     *)
(***************************************************************************)
EXTENDS Integers, Sequences, FiniteSets, TLC

VARIABLES fs, req, ret, replaced, calls, trip

vars == <<fs, req, ret, replaced, calls, trip>>

\* the field names of the records below; every record lists its fields in
\* this order
FieldNames ==
    [k |-> 0, m |-> 0, e |-> 0, ok |-> 0, v |-> 0, present |-> 0, text |-> 0,
     exists |-> 0, raised |-> 0, file |-> 0, valid |-> 0, data |-> 0, op |-> 0,
     path |-> 0, rescale |-> 0, args |-> 0, out |-> 0, h |-> 0, w |-> 0,
     dtype |-> 0, px |-> 0, tag |-> 0, slope |-> 0, offset |-> 0,
     magic |-> 0, bits |-> 0, pc |-> 0, handle |-> 0, acquired |-> 0,
     start |-> 0, overlap |-> 0, sig |-> 0, exp |-> 0, exact |-> 0,
     sample |-> 0, physical |-> 0, stored |-> 0]

---------------------------------------------------------------------------
(* Exact decimal numbers                                                   *)

RECURSIVE Pow10(_)
Pow10(k) == IF k <= 0 THEN 1 ELSE 10 * Pow10(k - 1)

Abs(x) == IF x < 0 THEN -x ELSE x

Sgn(x) == IF x < 0 THEN -1 ELSE IF x > 0 THEN 1 ELSE 0

Min(a, b) == IF a <= b THEN a ELSE b

RECURSIVE Norm(_, _)
\* canonical form of m * 10^e: m carries no trailing zero, 0 is 0 * 10^0
Norm(m, e) ==
    IF m = 0 THEN [k |-> "fin", m |-> 0, e |-> 0]
    ELSE IF m % 10 = 0 THEN Norm(m \div 10, e + 1)
    ELSE [k |-> "fin", m |-> m, e |-> e]

Num(m, e) == Norm(m, e)

PosInf == [k |-> "inf", m |-> 0, e |-> 0]
NegInf == [k |-> "ninf", m |-> 0, e |-> 0]
NaN == [k |-> "nan", m |-> 0, e |-> 0]

IsFinite(x) == x.k = "fin"

\* mantissa of the finite x at the exponent e (e <= x.e)
At(x, e) == x.m * Pow10(x.e - e)

\* x + y, x - y, n * x on finite operands
FAdd(x, y) == LET e == Min(x.e, y.e) IN Norm(At(x, e) + At(y, e), e)
FSub(x, y) == LET e == Min(x.e, y.e) IN Norm(At(x, e) - At(y, e), e)
FMul(x, y) == Norm(x.m * y.m, x.e + y.e)

RECURSIVE NumDigits(_)
\* number of decimal digits of n >= 0 (1 for 0)
NumDigits(n) == IF n < 10 THEN 1 ELSE 1 + NumDigits(n \div 10)

\* the position of the leading digit of the finite x # 0
Magnitude(x) == NumDigits(Abs(x.m)) + x.e

\* sign of x - y on finite operands: by sign, then by magnitude, then by digits
FCmp(x, y) ==
    IF Sgn(x.m) # Sgn(y.m) THEN Sgn(Sgn(x.m) - Sgn(y.m))
    ELSE IF x.m = 0 THEN 0
    ELSE IF Magnitude(x) # Magnitude(y)
    THEN Sgn(x.m) * Sgn(Magnitude(x) - Magnitude(y))
    ELSE LET e == Min(x.e, y.e) IN Sgn(At(x, e) - At(y, e))

FAbs(x) == [x EXCEPT !.m = Abs(x.m)]

\* the integer part of x / y (truncated toward zero), finite x, finite y # 0
TruncQuot(x, y) ==
    LET e == Min(x.e, y.e)
        a == At(x, e)
        b == At(y, e)
    IN  Sgn(a) * Sgn(b) * (Abs(a) \div Abs(b))

\* the integer part of x (truncated toward zero)
Trunc(x) == TruncQuot(x, Num(1, 0))

FromInt(n) == Num(n, 0)

---------------------------------------------------------------------------
(* Text: formatting with '.6E' and Python's float()                        *)

\* the precision of the format specification '.6E'
FracDigits == 6

DigitChars == <<"0", "1", "2", "3", "4", "5", "6", "7", "8", "9">>

IsDigit(c) == \E i \in 1..10 : DigitChars[i] = c

DigitVal(c) == (CHOOSE i \in 1..10 : DigitChars[i] = c) - 1

RECURSIVE IntToText(_, _)
\* the decimal digits of n >= 0, zero-padded to at least width characters
IntToText(n, width) ==
    IF n < 10 /\ width <= 1 THEN <<DigitChars[n + 1]>>
    ELSE Append(IntToText(n \div 10, width - 1), DigitChars[(n % 10) + 1])

\* a / d rounded to the nearest integer, ties to even (a >= 0, d > 0)
RoundHalfEven(a, d) ==
    LET q == a \div d
        r == a % d
    IN  IF 2 * r > d \/ (2 * r = d /\ q % 2 = 1) THEN q + 1 ELSE q

\* FormatE that drops the digits beyond the precision instead of rounding
FormatETruncating(x) ==
    CASE x.k = "inf" -> <<"I", "N", "F">>
      [] x.k = "ninf" -> <<"-", "I", "N", "F">>
      [] x.k = "nan" -> <<"N", "A", "N">>
      [] OTHER ->
           LET a == Abs(x.m)
               n == NumDigits(a)
               r == IF n > FracDigits + 1
                    THEN a \div Pow10(n - FracDigits - 1)
                    ELSE a * Pow10(FracDigits + 1 - n)
               ex == IF a = 0 THEN 0 ELSE x.e + n - 1
               ds == IntToText(r, FracDigits + 1)
           IN  (IF x.m < 0 THEN <<"-">> ELSE <<>>)
               \o <<ds[1], ".">> \o SubSeq(ds, 2, FracDigits + 1)
               \o <<"E", IF ex < 0 THEN "-" ELSE "+">>
               \o IntToText(Abs(ex), 2)

\* format(x, '.6E'): one digit, '.', FracDigits digits, 'E', sign, >= 2 digits
FormatE(x) ==
    CASE x.k = "inf" -> <<"I", "N", "F">>
      [] x.k = "ninf" -> <<"-", "I", "N", "F">>
      [] x.k = "nan" -> <<"N", "A", "N">>
      [] OTHER ->
           LET a == Abs(x.m)
               n == NumDigits(a)
               r0 == IF n > FracDigits + 1
                     THEN RoundHalfEven(a, Pow10(n - FracDigits - 1))
                     ELSE a * Pow10(FracDigits + 1 - n)
               up == r0 = Pow10(FracDigits + 1)
               r == IF up THEN Pow10(FracDigits) ELSE r0
               ex == IF a = 0 THEN 0 ELSE IF up THEN x.e + n ELSE x.e + n - 1
               ds == IntToText(r, FracDigits + 1)
           IN  (IF x.m < 0 THEN <<"-">> ELSE <<>>)
               \o <<ds[1], ".">> \o SubSeq(ds, 2, FracDigits + 1)
               \o <<"E", IF ex < 0 THEN "-" ELSE "+">>
               \o IntToText(Abs(ex), 2)

RECURSIVE DigitRun(_, _)
\* the end (exclusive) of the run of digits of s that starts at i
DigitRun(s, i) ==
    IF i <= Len(s) /\ IsDigit(s[i]) THEN DigitRun(s, i + 1) ELSE i

RECURSIVE DigitsToInt(_)
DigitsToInt(s) ==
    IF s = <<>> THEN 0
    ELSE 10 * DigitsToInt(SubSeq(s, 1, Len(s) - 1)) + DigitVal(s[Len(s)])

\* float(s) for a text s over the characters 0-9 . E e + -: the value, or
\* ok = FALSE where Python raises ValueError
PyFloat(s) ==
    LET n == Len(s)
        hasSign == n >= 1 /\ s[1] \in {"+", "-"}
        neg == n >= 1 /\ s[1] = "-"
        i0 == IF hasSign THEN 2 ELSE 1
        i1 == DigitRun(s, i0)
        hasDot == i1 <= n /\ s[i1] = "."
        f0 == IF hasDot THEN i1 + 1 ELSE i1
        f1 == DigitRun(s, f0)
        hasExp == f1 <= n /\ s[f1] \in {"e", "E"}
        hasESign == hasExp /\ f1 + 1 <= n /\ s[f1 + 1] \in {"+", "-"}
        eneg == hasESign /\ s[f1 + 1] = "-"
        e0 == IF hasESign THEN f1 + 2 ELSE f1 + 1
        e1 == IF hasExp THEN DigitRun(s, e0) ELSE f1
        wellFormed == /\ (i1 - i0) + (f1 - f0) >= 1
                      /\ hasExp => e1 > e0
                      /\ e1 = n + 1
        mant == DigitsToInt(SubSeq(s, i0, i1 - 1) \o SubSeq(s, f0, f1 - 1))
        ex == IF hasExp THEN DigitsToInt(SubSeq(s, e0, e1 - 1)) ELSE 0
    IN  IF wellFormed
        THEN [ok |-> TRUE,
              v |-> Num(IF neg THEN -mant ELSE mant,
                        (IF eneg THEN -ex ELSE ex) - (f1 - f0))]
        ELSE [ok |-> FALSE, v |-> NaN]

---------------------------------------------------------------------------
(* _extract_slope_offset: the regular expressions and the conversion       *)

UpperChars == <<"A", "B", "C", "D", "E", "F", "G", "H", "I", "J", "K", "L", "M",
                "N", "O", "P", "Q", "R", "S", "T", "U", "V", "W", "X", "Y", "Z">>
LowerChars == <<"a", "b", "c", "d", "e", "f", "g", "h", "i", "j", "k", "l", "m",
                "n", "o", "p", "q", "r", "s", "t", "u", "v", "w", "x", "y", "z">>

\* re.IGNORECASE: characters are compared after case folding
Fold(c) ==
    IF \E i \in 1..26 : UpperChars[i] = c
    THEN LowerChars[CHOOSE i \in 1..26 : UpperChars[i] = c]
    ELSE c

\* \s
IsSpace(c) == c \in {" ", "\t", "\n", "\r"}

\* the character class [\d.Ee+-]
InNumberClass(c) == IsDigit(c) \/ c \in {".", "E", "e", "+", "-"}

RECURSIVE SpaceRun(_, _)
SpaceRun(s, i) ==
    IF i <= Len(s) /\ IsSpace(s[i]) THEN SpaceRun(s, i + 1) ELSE i

RECURSIVE ClassRun(_, _)
ClassRun(s, i) ==
    IF i <= Len(s) /\ InNumberClass(s[i]) THEN ClassRun(s, i + 1) ELSE i

SlopeWord == <<"s", "l", "o", "p", "e">>
OffsetWord == <<"o", "f", "f", "s", "e", "t">>

\* the pattern  word\s*=\s*([\d.Ee+-]+)  tried at position i of s: the
\* captured group, or <<>> when the pattern does not match there
MatchAt(word, s, i) ==
    LET n == Len(word)
        litOk == /\ i + n - 1 <= Len(s)
                 /\ \A j \in 1..n : Fold(s[i + j - 1]) = word[j]
        a == SpaceRun(s, i + n)
        eqOk == a <= Len(s) /\ s[a] = "="
        b == SpaceRun(s, a + 1)
        c == ClassRun(s, b)
    IN  IF litOk /\ eqOk /\ c > b THEN SubSeq(s, b, c - 1) ELSE <<>>

\* re.search(pattern, s, re.IGNORECASE).group(1): the leftmost match
ReSearch(word, s) ==
    LET hits == {i \in 1..Len(s) : MatchAt(word, s, i) # <<>>}
    IN  IF hits = {} THEN <<>>
        ELSE MatchAt(word, s, CHOOSE i \in hits : \A j \in hits : i <= j)

One == Num(1, 0)
Zero == Num(0, 0)

\* _extract_slope_offset(img) for the description tag tag (tag.present is
\* FALSE when tag 270 is missing): ok = FALSE where float() raises ValueError
extract_slope_offset(tag) ==
    LET desc == tag.text
        slope_match == ReSearch(SlopeWord, desc)
        offset_match == ReSearch(OffsetWord, desc)
        sl == PyFloat(slope_match)
        of == PyFloat(offset_match)
    IN  IF ~tag.present \/ desc = <<>>
        THEN [ok |-> TRUE, slope |-> One, offset |-> Zero]
        ELSE IF slope_match # <<>> /\ ~sl.ok
        THEN [ok |-> FALSE, slope |-> One, offset |-> Zero]
        ELSE IF offset_match # <<>> /\ ~of.ok
        THEN [ok |-> FALSE, slope |-> One, offset |-> Zero]
        ELSE [ok |-> TRUE,
              slope |-> IF slope_match # <<>> THEN sl.v ELSE One,
              offset |-> IF offset_match # <<>> THEN of.v ELSE Zero]

---------------------------------------------------------------------------
(* Files, write_xre_tif, read_xre_tif, get_metadata                        *)

\* the largest value of numpy.uint16, the upper bound of np.clip
U16Max == 65535

NoText == <<>>

\* a path at which no file exists
NoFile == [exists |-> FALSE, h |-> 0, w |-> 0, px |-> <<>>,
           tag |-> [present |-> FALSE, text |-> NoText], magic |-> "", bits |-> 0]

\* the first bytes of a little-endian TIFF file: "II" and the magic value 42
TiffPrefix == "II*"

\* a single-strip greyscale TIFF: the header bytes magic, ImageLength h,
\* ImageWidth w, BitsPerSample bits, the samples px that the strip holds
\* (row-major; fewer than h * w when the strip is truncated) and tag 270
Container(magic, bits, h, w, px, tag) ==
    [exists |-> TRUE, h |-> h, w |-> w, px |-> px, tag |-> tag,
     magic |-> magic, bits |-> bits]

\* the file that img.save writes for a mode 'I;16' image (lines 90-99)
File(h, w, px, tag) == Container(TiffPrefix, 16, h, w, px, tag)

Clamp(t) == IF t < 0 THEN 0 ELSE IF t > U16Max THEN U16Max ELSE t

\* the C conversion of the integral value t to uint16 that astype(np.uint16)
\* performs: defined when t is representable, otherwise undefined behaviour
\* (observed outcomes: wrap-around modulo 2^16, saturation)
AsTypeU16(t) ==
    IF t \in 0..U16Max THEN {t} ELSE {t % (U16Max + 1), Clamp(t)}

\* astype(np.uint16) of an infinity or a NaN: undefined behaviour
AsTypeU16NonFinite == {0, U16Max}

\* python's slope == 0
IsZero(x) == IsFinite(x) /\ x.m = 0

\* line 81 for one element p: ((p - offset) / slope).astype(np.uint16); numpy
\* divides by zero without raising (the quotient is an infinity or a NaN)
RescaleToU16(p, slope, offset) ==
    IF slope.k = "nan" \/ offset.k = "nan" THEN AsTypeU16NonFinite
    ELSE IF ~IsFinite(offset) \/ IsZero(slope) THEN AsTypeU16NonFinite
    ELSE IF ~IsFinite(slope) THEN {0}
    ELSE AsTypeU16(TruncQuot(FSub(p, offset), slope))

\* line 85 for one element p: np.clip(p, 0, 65535).astype(np.uint16)
ClipToU16(p) ==
    IF FCmp(p, Zero) < 0 THEN 0
    ELSE IF FCmp(p, FromInt(U16Max)) > 0 THEN U16Max
    ELSE Trunc(p)

\* ConvertPixel with the uint16 pass-through narrowed to 15 bits (a signed
\* 16-bit image mode)
ConvertPixelSigned(dtype, p, rescale, slope, offset) ==
    IF rescale /\ dtype # "uint16" THEN RescaleToU16(p, slope, offset)
    ELSE IF dtype # "uint16" THEN {ClipToU16(p)}
    ELSE {Trunc(p) % ((U16Max + 1) \div 2)}

\* ConvertPixel without np.clip on the non-rescaled path
ConvertPixelNoClip(dtype, p, rescale, slope, offset) ==
    IF rescale /\ dtype # "uint16" THEN RescaleToU16(p, slope, offset)
    ELSE IF dtype # "uint16" THEN {Trunc(p) % (U16Max + 1)}
    ELSE {Trunc(p)}

\* ConvertPixel that applies the inverse calibration whenever rescale is set,
\* to uint16 arrays too
ConvertPixelRescaleAll(dtype, p, rescale, slope, offset) ==
    IF rescale THEN RescaleToU16(p, slope, offset)
    ELSE IF dtype # "uint16" THEN {ClipToU16(p)}
    ELSE {Trunc(p)}

\* lines 77-87 for one element p (an exact decimal, also when the dtype is
\* uint16): the set of values u16_data can hold for it
ConvertPixel(dtype, p, rescale, slope, offset) ==
    IF rescale /\ dtype # "uint16" THEN RescaleToU16(p, slope, offset)
    ELSE IF dtype # "uint16" THEN {ClipToU16(p)}
    ELSE {Trunc(p)}

RECURSIVE SeqsOf(_)
\* the sequences that pick their i-th element from choices[i]
SeqsOf(choices) ==
    IF choices = <<>> THEN {<<>>}
    ELSE LET n == Len(choices)
         IN  {Append(s, x) : s \in SeqsOf(SubSeq(choices, 1, n - 1)), x \in choices[n]}

\* line 93: f"slope = {slope:.6E} offset = {offset:.6E}"
Description(slope, offset) ==
    <<"s", "l", "o", "p", "e", " ", "=", " ">> \o FormatE(slope)
    \o <<" ", "o", "f", "f", "s", "e", "t", " ", "=", " ">> \o FormatE(offset)

\* WriteRaises without the check of line 79
WriteRaisesNever(data, rescale, slope) == FALSE

\* lines 77-80: the condition under which write_xre_tif raises ValueError
WriteRaises(data, rescale, slope) ==
    rescale /\ data.dtype # "uint16" /\ IsZero(slope)

\* write_xre_tif that creates the output file before it converts the data
WriteOpenFirst(old, data, rescale, slope, offset) ==
    IF WriteRaises(data, rescale, slope)
    THEN {[raised |-> "ValueError",
           file |-> File(0, 0, <<>>, [present |-> FALSE, text |-> NoText])]}
    ELSE {[raised |-> "none",
           file |-> File(data.h, data.w, u16_data,
                         [present |-> TRUE, text |-> Description(slope, offset)])] :
          u16_data \in SeqsOf([i \in 1..Len(data.px) |->
                        ConvertPixel(data.dtype, data.px[i], rescale, slope, offset)])}

\* write_xre_tif that leaves the description of an existing file in place
\* when slope and offset are the defaults
WriteKeepsDescription(old, data, rescale, slope, offset) ==
    IF WriteRaises(data, rescale, slope)
    THEN {[raised |-> "ValueError", file |-> old]}
    ELSE {[raised |-> "none",
           file |-> File(data.h, data.w, u16_data,
                         IF old.exists /\ slope = One /\ offset = Zero
                         THEN old.tag
                         ELSE [present |-> TRUE, text |-> Description(slope, offset)])] :
          u16_data \in SeqsOf([i \in 1..Len(data.px) |->
                        ConvertPixel(data.dtype, data.px[i], rescale, slope, offset)])}

\* write_xre_tif(path, data, rescale, slope, offset) where old is the file at
\* path before the call: the possible outcomes, each the exception raised
\* ("none" on return) and the file at path after the call
write_xre_tif(old, data, rescale, slope, offset) ==
    IF WriteRaises(data, rescale, slope)
    THEN {[raised |-> "ValueError", file |-> old]}
    ELSE {[raised |-> "none",
           file |-> File(data.h, data.w, u16_data,
                         [present |-> TRUE, text |-> Description(slope, offset)])] :
          u16_data \in SeqsOf([i \in 1..Len(data.px) |->
                        ConvertPixel(data.dtype, data.px[i], rescale, slope, offset)])}

\* ToPhysical with the offset subtracted
ToPhysicalMinus(sample, slope, offset) == FSub(FMul(FromInt(sample), slope), offset)

\* line 45 for one element: sample.astype(np.float32) * slope + offset
ToPhysical(sample, slope, offset) == FAdd(FMul(FromInt(sample), slope), offset)

\* the result of a call: the exception raised ("none" on return) and the
\* returned array (read_xre_tif) or dictionary (get_metadata)
Result(raised, dtype, h, w, px, slope, offset) ==
    [raised |-> raised, h |-> h, w |-> w, dtype |-> dtype, px |-> px,
     slope |-> slope, offset |-> offset]

Raised(exception) == Result(exception, "none", 0, 0, <<>>, Zero, Zero)

\* Image.open(path) where file is the file at path: the exception raised
\* ("none" when an image object is returned); the strip is not read
ImageOpen(file) ==
    IF ~file.exists THEN "FileNotFoundError"
    ELSE IF file.magic # TiffPrefix THEN "UnidentifiedImageError"
    ELSE "none"

\* img.mode of the opened file
Mode(file) == IF file.bits = 16 THEN "I;16" ELSE "L"

\* the strip holds every sample of the image, so that img.load() succeeds
StripComplete(file) == Len(file.px) >= file.h * file.w

\* read_xre_tif(path, rescale) where file is the file at path
read_xre_tif(file, rescale) ==
    LET cal == extract_slope_offset(file.tag)
    IN  IF ImageOpen(file) # "none" THEN Raised(ImageOpen(file))
        ELSE IF ~StripComplete(file) THEN Raised("OSError")
        ELSE IF ~rescale
        THEN Result("none", "uint16", file.h, file.w,
                    [i \in 1..Len(file.px) |-> FromInt(file.px[i])], Zero, Zero)
        ELSE IF ~cal.ok THEN Raised("ValueError")
        ELSE Result("none", "float32", file.h, file.w,
                    [i \in 1..Len(file.px) |->
                        ToPhysical(file.px[i], cal.slope, cal.offset)],
                    Zero, Zero)

\* get_metadata(path) where file is the file at path
get_metadata(file) ==
    LET cal == extract_slope_offset(file.tag)
    IN  IF ImageOpen(file) # "none" THEN Raised(ImageOpen(file))
        ELSE IF ~cal.ok THEN Raised("ValueError")
        ELSE Result("none", Mode(file), file.h, file.w, <<>>, cal.slope, cal.offset)

---------------------------------------------------------------------------
(* The callers' inputs                                                     *)

\* arrays have 1..MaxDim rows, and one column or MaxDim columns
MaxDim == 2

Paths == {"a", "b"}

\* element values of the uint16 arrays handed to write_xre_tif
U16Pool == <<FromInt(0), FromInt(200), FromInt(U16Max), FromInt(1)>>

\* element values of the float32 arrays: -10.0, 200.7, 70000.0, 99.9
FloatPool == <<Num(-10, 0), Num(2007, -1), Num(70000, 0), Num(999, -1)>>

Pool(dtype) == IF dtype = "uint16" THEN U16Pool ELSE FloatPool

\* the h x w array of the given dtype whose elements run through the pool
Grid(h, w, dtype) ==
    [h |-> h, w |-> w, dtype |-> dtype,
     px |-> [i \in 1..(h * w) |-> Pool(dtype)[((i - 1) % Len(Pool(dtype))) + 1]]]

Grids ==
    {Grid(h, w, dtype) :
        h \in 1..MaxDim, w \in {1, MaxDim}, dtype \in {"uint16", "float32"}}

\* the 1 x 1 array that holds x
Scalar(dtype, x) == [h |-> 1, w |-> 1, dtype |-> dtype, px |-> <<x>>]

\* 1 x 1 arrays with small elements (7 and 0.0005)
SmallGrids == {Scalar("uint16", FromInt(7)), Scalar("float32", Num(5, -4))}

Cal(slope, offset) == [slope |-> slope, offset |-> offset]

\* (1, 0), (0.5, 100), (-0.5, 100), (0, 0), (0, 100)
Calibrations ==
    {Cal(One, Zero), Cal(Num(5, -1), Num(100, 0)), Cal(Num(-5, -1), Num(100, 0)),
     Cal(Zero, Zero), Cal(Zero, Num(100, 0))}

\* calibrations with more than 7 significant digits and non-finite ones:
\* (1.2345678E-3, -2.00000051E-3), (999.99996, 0), (-inf, 0), (inf, 0), (1, inf)
FineCalibrations ==
    {Cal(Num(12345678, -10), Num(-200000051, -11)), Cal(Num(99999996, -5), Zero),
     Cal(NegInf, Zero), Cal(PosInf, Zero), Cal(One, PosInf)}

\* a small slope under an offset of 9 significant digits: (1E-5, 1000.00004),
\* with the arrays [[7]] and [[1000.000045]]
OffsetCalibration == Cal(Num(1, -5), Num(100000004, -5))
OffsetGrids == {Scalar("uint16", FromInt(7)), Scalar("float32", Num(1000000045, -6))}

Request(data, rescale, cal) ==
    [valid |-> TRUE, data |-> data, rescale |-> rescale,
     slope |-> cal.slope, offset |-> cal.offset]

NoRequest ==
    [valid |-> FALSE, data |-> [h |-> 0, w |-> 0, dtype |-> "none", px |-> <<>>],
     rescale |-> FALSE, slope |-> Zero, offset |-> Zero]

\* the calls write_xre_tif(path, data, rescale, slope, offset) made on path
Requests(path) ==
    IF path = "a"
    THEN {Request(g, rs, c) : g \in Grids, rs \in BOOLEAN, c \in Calibrations}
         \cup {Request(g, rs, c) : g \in SmallGrids, rs \in BOOLEAN,
                                   c \in FineCalibrations}
         \cup {Request(g, rs, OffsetCalibration) : g \in OffsetGrids, rs \in BOOLEAN}
    ELSE {Request(g, g.dtype # "uint16", Cal(One, Zero)) : g \in SmallGrids}

Tag(text) == [present |-> TRUE, text |-> text]

\* descriptions of files that other programs wrote
ForeignTags ==
    {[present |-> FALSE, text |-> NoText],
     Tag(<<>>),
     Tag(<<"h", "e", "l", "l", "o">>),
     Tag(<<"S", "l", "o", "p", "e", "=", "2", ".", "5", "e", "-", "1", ";">>),
     Tag(<<"O", "F", "F", "S", "E", "T", " ", "=", "\t", "-", "5">>),
     Tag(<<"o", "f", "f", "s", "e", "t", "=", "3", " ", "s", "l", "o", "p", "e", "=", "2">>),
     Tag(<<"s", "l", "o", "p", "e", " ", "=", " ", "1", ".", "2", ".", "3">>),
     Tag(<<"s", "l", "o", "p", "e", " ", "=", " ", "E">>),
     Tag(<<"o", "f", "f", "s", "e", "t", " ", "=", " ", "-">>)}

\* files that other programs wrote: well-formed 16-bit files, and
\*   an 8-bit greyscale TIFF (BitsPerSample = 8),
\*   a file that does not start with the TIFF header,
\*   16-bit files whose strip ends after the first of two samples
ForeignFiles ==
    {File(1, 2, <<200, U16Max>>, t) : t \in ForeignTags}
    \cup {Container(TiffPrefix, 8, 1, 2, <<200, 255>>, Tag(<<"h", "e", "l", "l", "o">>)),
          Container("junk", 16, 1, 2, <<200, U16Max>>, Tag(<<>>)),
          Container(TiffPrefix, 16, 1, 2, <<200>>,
                    Tag(<<"o", "f", "f", "s", "e", "t", "=", "3", " ",
                          "s", "l", "o", "p", "e", "=", "2">>)),
          Container(TiffPrefix, 16, 1, 2, <<200>>,
                    Tag(<<"s", "l", "o", "p", "e", " ", "=", " ", "E">>))}

---------------------------------------------------------------------------
(* The state machine                                                       *)

Call(op, path, rescale, args, out) ==
    [op |-> op, path |-> path, rescale |-> rescale, args |-> args, out |-> out]

\* a binary floating-point number sig * 2^exp
Bin(sig, exp) == [sig |-> sig, exp |-> exp]

\* the round trip of one sample through line 45 and line 81 in float32: the
\* program point pc, the stored sample, the physical value read, whether it
\* was computed without rounding, and the sample stored back
Trip(slope, offset, pc, exact, sample, physical, stored) ==
    [slope |-> slope, offset |-> offset, pc |-> pc, exact |-> exact,
     sample |-> sample, physical |-> physical, stored |-> stored]

NoTrip == Trip(One, Zero, "idle", TRUE, 0, Bin(0, 0), 0)

\* the callers that run concurrently, each on a path of its own
Callers == {"c1", "c2"}

PathOf(c) == IF c = "c1" THEN "a" ELSE "b"

\* the state of a caller: the call in progress (op, rescale, args), its
\* program point pc, its local array px, whether it holds an open file handle
\* and whether it has acquired one, its result out, the file at its path when
\* the call began (start), and whether the other caller ran during the call
Local(op, rescale, args, out, px, pc, handle, acquired, start, overlap) ==
    [op |-> op, rescale |-> rescale, args |-> args, out |-> out, px |-> px,
     pc |-> pc, handle |-> handle, acquired |-> acquired, start |-> start,
     overlap |-> overlap]

Idle == Local("none", FALSE, NoRequest, Raised("none"), <<>>, "idle", FALSE, FALSE,
              NoFile, FALSE)

\* the write_xre_tif call r follows a call before, on the same path, that
\* returned and had another shape and another calibration
Replaces(before, r) ==
    /\ before.valid
    /\ <<before.data.h, before.data.w>> # <<r.data.h, r.data.w>>
    /\ <<before.slope, before.offset>> # <<r.slope, r.offset>>

\* fs: the file at each path; req: the arguments of the last write_xre_tif
\* call that returned, per path; ret: the last call and its result;
\* replaced: per path, whether that last write replaced the file of a write
\* with another shape and another calibration
Init ==
    /\ \E f \in ForeignFiles \cup {NoFile} : fs = [p \in Paths |-> IF p = "a" THEN f ELSE NoFile]
    /\ req = [p \in Paths |-> NoRequest]
    /\ ret = Call("none", "a", FALSE, NoRequest, Raised("none"))
    /\ replaced = [p \in Paths |-> FALSE]
    /\ calls = [c \in Callers |-> Idle]
    /\ trip = NoTrip

Write(path, r) ==
    \E o \in write_xre_tif(fs[path], r.data, r.rescale, r.slope, r.offset) :
        /\ fs' = [fs EXCEPT ![path] = o.file]
        /\ req' = IF o.raised = "none" THEN [req EXCEPT ![path] = r] ELSE req
        /\ replaced' = IF o.raised = "none"
                       THEN [replaced EXCEPT ![path] = Replaces(req[path], r)]
                       ELSE replaced
        /\ UNCHANGED <<calls, trip>>
        /\ ret' = Call("write", path, r.rescale, r, Raised(o.raised))

Read(path, rescale) ==
    /\ ret' = Call("read", path, rescale, NoRequest, read_xre_tif(fs[path], rescale))
    /\ UNCHANGED <<fs, req, replaced, calls, trip>>

GetMetadata(path) ==
    /\ ret' = Call("get_metadata", path, FALSE, NoRequest, get_metadata(fs[path]))
    /\ UNCHANGED <<fs, req, replaced, calls, trip>>

Next ==
    \/ \E path \in Paths : \E r \in Requests(path) : Write(path, r)
    \/ \E path \in Paths : \E rescale \in BOOLEAN : Read(path, rescale)
    \/ \E path \in Paths : GetMetadata(path)

Spec == Init /\ [][Next]_vars

---------------------------------------------------------------------------
(* The calls step by step: two callers, each on a path of its own          *)

\* the with block that keeps its handle open when an exception leaves it
HandleAfterWithOnReturn(raised) == raised # "none"

\* whether the handle is still open when control has left the block
\*   with Image.open(path) as img:
\* by return (raised = "none") or by the exception raised
HandleAfterWith(raised) == FALSE

\* img.save that writes to one fixed file
SavedAtFixed(path) == "a"

\* the file that img.save(path, ...) writes
SavedAt(path) == path

\* the file that img.save has opened for writing and not yet written
EmptyFile == Container("", 0, 0, 0, <<>>, [present |-> FALSE, text |-> NoText])

Busy(c) == calls[c].pc \notin {"idle", "done"}

Other(c) == CHOOSE d \in Callers : d # c

\* caller c moves to the state next
Step(c, next) ==
    calls' = [calls EXCEPT ![c] = [next EXCEPT !.overlap = @ \/ Busy(Other(c))]]

\* the state of caller c when the exception e leaves its with block
RaiseInWith(c, e) ==
    [calls[c] EXCEPT !.out = Raised(e), !.pc = "done", !.handle = HandleAfterWith(e)]

\* the calls write_xre_tif(path, data, rescale, slope, offset) of the callers
CallRequests(path) ==
    IF path = "a"
    THEN {Request(Scalar("uint16", FromInt(7)), FALSE, Cal(One, Zero)),
          Request(Grid(1, 2, "float32"), TRUE, Cal(Num(5, -1), Num(100, 0))),
          Request(Scalar("float32", Num(5, -4)), TRUE, Cal(Zero, Zero))}
    ELSE {Request(Scalar("uint16", FromInt(7)), TRUE, Cal(Num(5, -1), Num(100, 0))),
          Request(Scalar("float32", Num(5, -4)), FALSE, Cal(One, Zero))}

InitCalls ==
    /\ \E f \in ForeignFiles \cup {NoFile} : fs = [p \in Paths |-> IF p = "a" THEN f ELSE NoFile]
    /\ req = [p \in Paths |-> NoRequest]
    /\ ret = Call("none", "a", FALSE, NoRequest, Raised("none"))
    /\ replaced = [p \in Paths |-> FALSE]
    /\ calls = [c \in Callers |-> Idle]
    /\ trip = NoTrip

Begin(c, op, rescale, r, pc) ==
    /\ ~Busy(c)
    /\ Step(c, Local(op, rescale, r, Raised("none"), <<>>, pc, FALSE, FALSE,
                     fs[PathOf(c)], FALSE))
    /\ UNCHANGED <<fs, req, ret, replaced, trip>>

BeginRead(c, rescale) == Begin(c, "read", rescale, NoRequest, "open")

BeginMetadata(c) == Begin(c, "get_metadata", FALSE, NoRequest, "open")

BeginWrite(c, r) == Begin(c, "write", r.rescale, r, "convert")

\* lines 37 and 149: Image.open(path)
Open(c) ==
    LET call == calls[c]
        e == ImageOpen(fs[PathOf(c)])
    IN  /\ call.pc = "open"
        /\ Step(c, IF e # "none"
                   THEN [call EXCEPT !.out = Raised(e), !.pc = "done"]
                   ELSE [call EXCEPT !.pc = IF call.op = "read" THEN "load" ELSE "extract",
                                     !.handle = TRUE, !.acquired = TRUE])
        /\ UNCHANGED <<fs, req, ret, replaced, trip>>

\* line 39: data = np.array(img, dtype=np.uint16)
Load(c) ==
    LET call == calls[c]
        file == fs[PathOf(c)]
    IN  /\ call.pc = "load"
        /\ Step(c, IF ~StripComplete(file) THEN RaiseInWith(c, "OSError")
                   ELSE [call EXCEPT !.px = [i \in 1..(file.h * file.w) |->
                                                FromInt(file.px[i])],
                                     !.pc = IF call.rescale THEN "rescale" ELSE "exit"])
        /\ UNCHANGED <<fs, req, ret, replaced, trip>>

\* lines 42-45: the calibration of the description applied to data
Rescale(c) ==
    LET call == calls[c]
        cal == extract_slope_offset(fs[PathOf(c)].tag)
    IN  /\ call.pc = "rescale"
        /\ Step(c, IF ~cal.ok THEN RaiseInWith(c, "ValueError")
                   ELSE [call EXCEPT !.px = [i \in 1..Len(call.px) |->
                                                ToPhysical(Trunc(call.px[i]),
                                                           cal.slope, cal.offset)],
                                     !.pc = "exit"])
        /\ UNCHANGED <<fs, req, ret, replaced, trip>>

\* line 150: slope, offset = _extract_slope_offset(img)
Extract(c) ==
    LET call == calls[c]
        cal == extract_slope_offset(fs[PathOf(c)].tag)
    IN  /\ call.pc = "extract"
        /\ Step(c, IF ~cal.ok THEN RaiseInWith(c, "ValueError")
                   ELSE [call EXCEPT !.out = Result("none", "none", 0, 0, <<>>,
                                                   cal.slope, cal.offset),
                                     !.pc = "exit"])
        /\ UNCHANGED <<fs, req, ret, replaced, trip>>

\* lines 46-47 and 151-159: the with block is left by return
Exit(c) ==
    LET call == calls[c]
        file == fs[PathOf(c)]
    IN  /\ call.pc = "exit"
        /\ Step(c, [call EXCEPT
                       !.out = IF call.op = "read"
                               THEN Result("none",
                                           IF call.rescale THEN "float32" ELSE "uint16",
                                           file.h, file.w, call.px, Zero, Zero)
                               ELSE Result("none", Mode(file), file.h, file.w, <<>>,
                                           call.out.slope, call.out.offset),
                       !.pc = "done",
                       !.handle = HandleAfterWith("none")])
        /\ UNCHANGED <<fs, req, ret, replaced, trip>>

\* lines 77-87: the conversion to u16_data
Convert(c) ==
    LET call == calls[c]
        r == call.args
    IN  /\ call.pc = "convert"
        /\ IF WriteRaises(r.data, r.rescale, r.slope)
           THEN Step(c, [call EXCEPT !.out = Raised("ValueError"), !.pc = "done"])
           ELSE \E u16_data \in SeqsOf([i \in 1..Len(r.data.px) |->
                                 ConvertPixel(r.data.dtype, r.data.px[i], r.rescale,
                                              r.slope, r.offset)]) :
                    Step(c, [call EXCEPT !.px = u16_data, !.pc = "save"])
        /\ UNCHANGED <<fs, req, ret, replaced, trip>>

\* line 97: img.save opens the file for writing
SaveOpen(c) ==
    LET call == calls[c]
    IN  /\ call.pc = "save"
        /\ fs' = [fs EXCEPT ![SavedAt(PathOf(c))] = EmptyFile]
        /\ Step(c, [call EXCEPT !.pc = "write", !.handle = TRUE, !.acquired = TRUE])
        /\ UNCHANGED <<req, ret, replaced, trip>>

\* lines 90-99: img.save writes the strip and the tags and closes the file
SaveWrite(c) ==
    LET call == calls[c]
        r == call.args
    IN  /\ call.pc = "write"
        /\ fs' = [fs EXCEPT ![SavedAt(PathOf(c))] =
                      File(r.data.h, r.data.w, call.px,
                           Tag(Description(r.slope, r.offset)))]
        /\ Step(c, [call EXCEPT !.out = Raised("none"), !.pc = "done",
                                !.handle = FALSE])
        /\ UNCHANGED <<req, ret, replaced, trip>>

NextCalls ==
    \/ \E c \in Callers : \E rescale \in BOOLEAN : BeginRead(c, rescale)
    \/ \E c \in Callers : BeginMetadata(c)
    \/ \E c \in Callers : \E r \in CallRequests(PathOf(c)) : BeginWrite(c, r)
    \/ \E c \in Callers : Open(c)
    \/ \E c \in Callers : Load(c)
    \/ \E c \in Callers : Rescale(c)
    \/ \E c \in Callers : Extract(c)
    \/ \E c \in Callers : Exit(c)
    \/ \E c \in Callers : Convert(c)
    \/ \E c \in Callers : SaveOpen(c)
    \/ \E c \in Callers : SaveWrite(c)

SpecCalls == InitCalls /\ [][NextCalls]_vars

---------------------------------------------------------------------------
(* float32 arithmetic, round to nearest with ties to even, for lines 45    *)
(* and 81 on a float32 array.  Numbers stay within the normal range of     *)
(* float32 and below 2^30 in magnitude; exponent overflow and subnormal    *)
(* numbers are not modelled.                                               *)

RECURSIVE Pow2(_)
Pow2(k) == IF k <= 0 THEN 1 ELSE 2 * Pow2(k - 1)

RECURSIVE BitLen(_)
\* the number of bits of n >= 0
BitLen(n) == IF n = 0 THEN 0 ELSE 1 + BitLen(n \div 2)

\* the number of bits of the significand of a float32
SigBits == 24

F32Zero == Bin(0, 0)

Neg(x) == Bin(-x.sig, x.exp)

\* (n + f) * 2^x rounded to SigBits bits, for an integer n >= 0 and a
\* fraction 0 <= f < 1 that differs from 0 exactly when sticky holds (n has
\* at least SigBits + 2 bits then): v is the float32, exact tells that
\* nothing was rounded away
RoundSigBits(n, sticky, x) ==
    LET d == BitLen(n) - SigBits
        q == n \div Pow2(d)
        r == n % Pow2(d)
        half == Pow2(d - 1)
        up == r > half \/ (r = half /\ (sticky \/ q % 2 = 1))
    IN  IF n = 0 THEN [v |-> F32Zero, exact |-> ~sticky]
        ELSE IF d <= 0 THEN [v |-> Bin(n * Pow2(-d), x + d), exact |-> ~sticky]
        ELSE IF up /\ q + 1 = Pow2(SigBits)
        THEN [v |-> Bin(Pow2(SigBits - 1), x + d + 1), exact |-> FALSE]
        ELSE [v |-> Bin(IF up THEN q + 1 ELSE q, x + d), exact |-> r = 0 /\ ~sticky]

\* the rounded magnitude r under the sign s
WithSign(s, r) == [v |-> Bin(s * r.v.sig, r.v.exp), exact |-> r.exact]

RECURSIVE DivBits(_, _, _, _)
\* (q + r / b) * 2^x rounded to float32, for 0 <= r < b < 2^30: the quotient
\* is developed bit by bit until it has SigBits + 2 bits
DivBits(q, r, b, x) ==
    IF q = 0 /\ r = 0 THEN [v |-> F32Zero, exact |-> TRUE]
    ELSE IF r = 0 \/ BitLen(q) >= SigBits + 2 THEN RoundSigBits(q, r # 0, x)
    ELSE DivBits(2 * q + (IF 2 * r >= b THEN 1 ELSE 0), (2 * r) % b, b, x - 1)

\* np.float32(n) for an integer n
F32FromInt(n) == WithSign(Sgn(n), RoundSigBits(Abs(n), FALSE, 0)).v

\* the float32 of the Python float x (an exact decimal here): the nearest
\* float32
F32FromDecimal(x) ==
    LET a == Abs(x.m)
        b == Pow10(-x.e)
    IN  IF x.e >= 0 THEN F32FromInt(x.m * Pow10(x.e))
        ELSE WithSign(Sgn(x.m), DivBits(a \div b, a % b, b, 0)).v

\* x * y in float32
F32Mul(x, y) ==
    LET a == Abs(x.sig)
        b == Abs(y.sig)
        h == Pow2(SigBits \div 2)
        a1 == a \div h
        a0 == a % h
        b1 == b \div h
        b0 == b % h
        mid == a1 * b0 + a0 * b1
        low == (mid % h) * h + a0 * b0
        lo == low % Pow2(SigBits)
        hi == a1 * b1 + mid \div h + low \div Pow2(SigBits)
        \* |x * y| = (hi * 2^SigBits + lo) * 2^(x.exp + y.exp)
        r == RoundSigBits(hi * Pow2(4) + lo \div Pow2(SigBits - 4),
                          lo % Pow2(SigBits - 4) # 0,
                          x.exp + y.exp + SigBits - 4)
    IN  IF a = 0 \/ b = 0 THEN [v |-> F32Zero, exact |-> TRUE]
        ELSE WithSign(Sgn(x.sig) * Sgn(y.sig), r)

\* x + y in float32: the operand of the smaller exponent is shifted under
\* three guard bits, the bits shifted out are kept as sticky
F32Add(x, y) ==
    LET big == IF x.exp >= y.exp THEN x ELSE y
        small == IF x.exp >= y.exp THEN y ELSE x
        d == big.exp - small.exp
        far == d > SigBits + 3
        b == Abs(big.sig) * 8
        s0 == Abs(small.sig) * 8
        s == IF far THEN 0 ELSE s0 \div Pow2(d)
        sticky == IF far THEN TRUE ELSE s0 % Pow2(d) # 0
        n == IF Sgn(big.sig) = Sgn(small.sig) THEN b + s
             ELSE IF sticky THEN b - s - 1
             ELSE b - s
        r == RoundSigBits(Abs(n), sticky, big.exp - 3)
    IN  IF x.sig = 0 THEN [v |-> y, exact |-> TRUE]
        ELSE IF y.sig = 0 THEN [v |-> x, exact |-> TRUE]
        ELSE WithSign(IF n < 0 THEN -Sgn(big.sig) ELSE Sgn(big.sig), r)

\* x / y in float32, y # 0
F32Div(x, y) ==
    LET a == Abs(x.sig)
        b == Abs(y.sig)
    IN  WithSign(Sgn(x.sig) * Sgn(y.sig), DivBits(a \div b, a % b, b, x.exp - y.exp))

\* the integer part of x (truncated toward zero)
F32Trunc(x) ==
    IF x.exp >= 0 THEN x.sig * Pow2(x.exp)
    ELSE IF -x.exp >= SigBits THEN 0
    ELSE Sgn(x.sig) * (Abs(x.sig) \div Pow2(-x.exp))

\* ToPhysicalF32 without the offset
ToPhysicalF32NoOffset(sample, slope, offset) ==
    F32Mul(F32FromInt(sample), F32FromDecimal(slope))

\* line 45 for one element in float32: the value and whether the product
\* and the sum were computed without rounding
ToPhysicalF32(sample, slope, offset) ==
    LET prod == F32Mul(F32FromInt(sample), F32FromDecimal(slope))
        sum == F32Add(prod.v, F32FromDecimal(offset))
    IN  [v |-> sum.v, exact |-> prod.exact /\ sum.exact]

\* line 81 for one element p of a float32 array, slope # 0:
\* ((p - offset) / slope).astype(np.uint16)
RescaleToU16F32(p, slope, offset) ==
    LET diff == F32Add(p, Neg(F32FromDecimal(offset))).v
    IN  AsTypeU16(F32Trunc(F32Div(diff, F32FromDecimal(slope)).v))

\* the samples of the file that is read and written back
TripSamples == {0, 1, 2, 3, 7, 200, 201, 1000, 4095, U16Max}

\* its calibrations: (0.5, 100), (-0.5, 100), (1, 0), (0.1, 100), (0.001, 0)
TripCalibrations ==
    {Cal(Num(5, -1), Num(100, 0)), Cal(Num(-5, -1), Num(100, 0)), Cal(One, Zero),
     Cal(Num(1, -1), Num(100, 0)), Cal(Num(1, -3), Zero)}

InitF32 ==
    /\ fs = [p \in Paths |-> NoFile]
    /\ req = [p \in Paths |-> NoRequest]
    /\ ret = Call("none", "a", FALSE, NoRequest, Raised("none"))
    /\ replaced = [p \in Paths |-> FALSE]
    /\ calls = [c \in Callers |-> Idle]
    /\ \E c \in TripCalibrations : \E n \in TripSamples :
          trip = Trip(c.slope, c.offset, "file", TRUE, n, F32Zero, 0)

\* read_xre_tif(path, rescale=True) for one sample of the file (line 45)
ReadBack ==
    LET p == ToPhysicalF32(trip.sample, trip.slope, trip.offset)
    IN  /\ trip.pc = "file"
        /\ trip' = [trip EXCEPT !.pc = "read", !.exact = p.exact, !.physical = p.v]
        /\ UNCHANGED <<fs, req, ret, replaced, calls>>

\* write_xre_tif(path, data, rescale=True, slope, offset) for the element
\* read, under the slope and offset of the file (line 81)
WriteBack ==
    /\ trip.pc = "read"
    /\ \E u \in RescaleToU16F32(trip.physical, trip.slope, trip.offset) :
          trip' = [trip EXCEPT !.pc = "written", !.stored = u]
    /\ UNCHANGED <<fs, req, ret, replaced, calls>>

NextF32 == ReadBack \/ WriteBack

SpecF32 == InitF32 /\ [][NextF32]_vars

---------------------------------------------------------------------------
(* Properties                                                              *)

\* the last call was read_xre_tif(path, rescale) on a file that the call
\* write_xre_tif(path, **req[path]) produced
ReadAfterWrite(rescale) ==
    ret.op = "read" /\ ret.rescale = rescale /\ req[ret.path].valid

\* |x - y| <= |bound| on finite operands
Within(x, y, bound) == FCmp(FAbs(FSub(x, y)), FAbs(bound)) <= 0

\* C1: a uint16 array written with rescale=False, under any slope and offset,
\* is read back with rescale=False as an array of the same shape whose every
\* element equals the element written.
C1_RoundTripRaw ==
    LET r == req[ret.path]
    IN  (ReadAfterWrite(FALSE) /\ r.data.dtype = "uint16" /\ ~r.rescale) =>
            /\ ret.out.raised = "none"
            /\ ret.out.dtype = "uint16"
            /\ ret.out.h = r.data.h /\ ret.out.w = r.data.w
            /\ ret.out.px = r.data.px

\* a 2 x 2 uint16 array holding 65535, written under slope -0.5 and offset
\* 100, has been read back
C1_Witness ==
    LET r == req[ret.path]
    IN  /\ ReadAfterWrite(FALSE) /\ r.data.dtype = "uint16" /\ ~r.rescale
        /\ r.data.h = 2 /\ r.data.w = 2 /\ r.slope = Num(-5, -1)
        /\ \E i \in 1..4 : ret.out.px[i] = FromInt(U16Max)

\* the finite x rounded to FracDigits + 1 significant digits (ties to even)
RoundSig(x) ==
    LET a == Abs(x.m)
        n == NumDigits(a)
        d == n - (FracDigits + 1)
    IN  IF d <= 0 THEN x
        ELSE Num(Sgn(x.m) * RoundHalfEven(a, Pow10(d)), x.e + d)

\* the calibration of the request r is finite with slope # 0
FiniteCalibration(r) == IsFinite(r.slope) /\ IsFinite(r.offset) /\ r.slope.m # 0

InRange(p, r) == TruncQuot(FSub(p, r.offset), r.slope) \in 0..U16Max

\* slope and offset of r have at most FracDigits + 1 significant digits
SurvivesFormat(r) == RoundSig(r.slope) = r.slope /\ RoundSig(r.offset) = r.offset

ZeroSlopeWrite ==
    ret.op = "write" /\ ret.args.rescale /\ IsZero(ret.args.slope)

\* C3 as stated: write_xre_tif with rescale=True and slope == 0 raises
\* ValueError for every array, uint16 or not.
C3_Original == ZeroSlopeWrite => ret.out.raised = "ValueError"

\* C3 as amended: write_xre_tif with rescale=True and slope == 0 raises
\* ValueError for every array whose dtype is not uint16, whatever the offset;
\* for a uint16 array it returns.
C3_ZeroSlopeRejected ==
    ZeroSlopeWrite =>
        (ret.out.raised = "ValueError" <=> ret.args.data.dtype # "uint16")

\* a float array has been rejected under slope 0 and offset 100
C3_Witness ==
    /\ ZeroSlopeWrite /\ ret.args.data.dtype = "float32"
    /\ ret.args.offset = Num(100, 0) /\ ret.out.raised = "ValueError"

\* C4: a write_xre_tif call that raises ValueError leaves every path as it
\* was: a file exists after the call exactly where one existed before, with
\* the same shape, samples and description, so that read_xre_tif and
\* get_metadata (functions of the file) return what they returned before.
C4_FailedWriteChangesNothing ==
    [][(ret'.op = "write" /\ ret'.out.raised = "ValueError") =>
        \A p \in Paths : fs'[p] = fs[p]]_vars

\* a write has been rejected at a path that holds a file written earlier
C4_Witness ==
    /\ ret.op = "write" /\ ret.out.raised = "ValueError"
    /\ fs[ret.path].exists /\ req[ret.path].valid

\* the arguments of the write_xre_tif call that produced the file at path p
\* were a non-uint16 array and the given rescale
FloatWritten(p, rescale) ==
    req[p].valid /\ req[p].data.dtype # "uint16" /\ req[p].rescale = rescale

\* C5 as stated: with rescale=True, a float element p and a finite slope # 0,
\* the stored sample is (p - offset) / slope truncated toward zero and
\* clamped into 0..65535.
C5_Original ==
    \A p \in Paths :
        LET r == req[p]
        IN  (FloatWritten(p, TRUE) /\ FiniteCalibration(r)) =>
                /\ Len(fs[p].px) = Len(r.data.px)
                /\ \A i \in 1..Len(r.data.px) :
                      fs[p].px[i] =
                          Clamp(TruncQuot(FSub(r.data.px[i], r.offset), r.slope))

\* C6: with rescale=False and an array that is not uint16, every stored
\* sample is the element clamped into 0..65535 and truncated toward zero
\* (equally: truncated, then clamped), whatever slope and offset are; the
\* file has the shape of the array.
C6_ClipNoRescale ==
    \A p \in Paths :
        LET r == req[p]
        IN  FloatWritten(p, FALSE) =>
                /\ fs[p].h = r.data.h /\ fs[p].w = r.data.w
                /\ Len(fs[p].px) = Len(r.data.px)
                /\ \A i \in 1..Len(r.data.px) :
                      fs[p].px[i] = Clamp(Trunc(r.data.px[i]))

\* [[-10.0, 200.7], [70000.0, 99.9]] written with rescale=False under slope
\* 0.5 and offset 100 is stored as [[0, 200], [65535, 99]]
C6_Witness ==
    /\ FloatWritten("a", FALSE)
    /\ req["a"].slope = Num(5, -1) /\ req["a"].offset = Num(100, 0)
    /\ req["a"].data.px = <<Num(-10, 0), Num(2007, -1), Num(70000, 0), Num(999, -1)>>
    /\ fs["a"].px = <<0, 200, U16Max, 99>>

\* C7 as stated: parsing the description never fails, so neither
\* get_metadata nor read_xre_tif(rescale=True) raises ValueError.
C7_Original ==
    (ret.op = "get_metadata" \/ (ret.op = "read" /\ ret.rescale)) =>
        ret.out.raised # "ValueError"

\* C8 as stated: get_metadata reports the parsed number for each of the two
\* patterns that matches the description and the default (1.0 for slope, 0.0
\* for offset) for each that does not, also when tag 270 is missing or empty.
C8_Original ==
    LET tag == fs[ret.path].tag
        sm == ReSearch(SlopeWord, tag.text)
        om == ReSearch(OffsetWord, tag.text)
    IN  (ret.op = "get_metadata" /\ fs[ret.path].exists) =>
            /\ ret.out.raised = "none"
            /\ ret.out.slope = (IF tag.present /\ sm # <<>> THEN PyFloat(sm).v ELSE One)
            /\ ret.out.offset = (IF tag.present /\ om # <<>> THEN PyFloat(om).v ELSE Zero)

\* the value of the text f"{x:.6E}"
TextValue(x) == IF IsFinite(x) THEN RoundSig(x) ELSE x

\* C9 as stated: after a write_xre_tif call that returned, get_metadata
\* returns the values of the texts f"{slope:.6E}" and f"{offset:.6E}".
C9_Original ==
    LET r == req[ret.path]
    IN  (ret.op = "get_metadata" /\ r.valid) =>
            /\ ret.out.raised = "none"
            /\ ret.out.slope = TextValue(r.slope)
            /\ ret.out.offset = TextValue(r.offset)

\* C9 as amended: after a write_xre_tif call that returned and whose slope
\* and offset are finite, get_metadata returns the slope and the offset
\* rounded to 7 significant digits (6 fractional digits of scientific
\* notation), for either rescale and either dtype.
C9_CalibrationRoundTrip ==
    LET r == req[ret.path]
    IN  (ret.op = "get_metadata" /\ r.valid /\ IsFinite(r.slope) /\ IsFinite(r.offset)) =>
            /\ ret.out.raised = "none"
            /\ ret.out.slope = RoundSig(r.slope)
            /\ ret.out.offset = RoundSig(r.offset)

\* slope 1.2345678E-3 and offset -2.00000051E-3 have been written and
\* reported as 1.234568E-3 and -2.000001E-3
C9_Witness ==
    LET r == req[ret.path]
    IN  /\ ret.op = "get_metadata" /\ r.valid
        /\ r.slope = Num(12345678, -10) /\ r.offset = Num(-200000051, -11)
        /\ ret.out.slope = Num(1234568, -9) /\ ret.out.offset = Num(-2000001, -9)

\* C10 as stated: for every file that read_xre_tif(rescale=False) reads,
\* read_xre_tif(rescale=True) returns sample * slope + offset for each
\* sample of the raw read, with the slope and offset get_metadata reports.
C10_Original ==
    LET raw == read_xre_tif(fs[ret.path], FALSE)
        meta == get_metadata(fs[ret.path])
    IN  (ret.op = "read" /\ ret.rescale /\ raw.raised = "none") =>
            /\ ret.out.raised = "none"
            /\ meta.raised = "none"
            /\ ret.out.px = [i \in 1..Len(raw.px) |->
                                FAdd(FMul(raw.px[i], meta.slope), meta.offset)]

\* the file is outside the profile: it does not start with the TIFF header,
\* or declares BitsPerSample # 16, or its strip is not h * w samples long
Malformed(file) ==
    file.magic # TiffPrefix \/ file.bits # 16 \/ Len(file.px) # file.h * file.w

\* C11 as stated: read_xre_tif raises, and returns no array, on every file
\* that does not start with the TIFF header, declares BitsPerSample # 16 or
\* has a strip that is not width * height samples long.
C11_Original ==
    (ret.op = "read" /\ fs[ret.path].exists /\ Malformed(fs[ret.path])) =>
        ret.out.raised # "none"

\* the file with its strip completed to h * w samples
WithWholeStrip(file) == [file EXCEPT !.px = [i \in 1..(file.h * file.w) |-> 0]]

\* C12 as stated: get_metadata raises exactly where read_xre_tif raises for
\* a reason other than the strip (where it raises on the file with a complete
\* strip), and otherwise returns the width, height, slope, offset and mode,
\* also when the strip is truncated.
C12_Original ==
    LET file == fs[ret.path]
        raw == read_xre_tif(WithWholeStrip(file), FALSE)
    IN  (ret.op = "get_metadata" /\ file.exists) =>
            /\ ret.out.raised = raw.raised
            /\ raw.raised = "none" =>
                  /\ ret.out.h = file.h /\ ret.out.w = file.w
                  /\ ret.out.dtype = Mode(file)

\* the file at path p was written from a uint16 array with rescale=True and
\* slope # 0
U16Rescaled(p) ==
    req[p].valid /\ req[p].data.dtype = "uint16" /\ req[p].rescale
        /\ ~IsZero(req[p].slope)

\* x * slope + offset for a finite x, in IEEE arithmetic on the non-finite
\* slope and offset
Affine(x, slope, offset) ==
    IF slope.k = "nan" \/ offset.k = "nan" THEN NaN
    ELSE IF ~IsFinite(slope)
    THEN IF x.m = 0 THEN NaN
         ELSE LET prod == IF (slope.k = "inf") = (x.m > 0) THEN PosInf ELSE NegInf
              IN  IF IsFinite(offset) \/ offset = prod THEN prod ELSE NaN
    ELSE IF ~IsFinite(offset) THEN offset
    ELSE FAdd(FMul(x, slope), offset)

\* C16 as stated: a uint16 array written with rescale=True and slope # 0 is
\* read back unchanged with rescale=False, and with rescale=True as
\* sample * slope + offset for the slope and offset given to the write.
C16_Original ==
    LET r == req[ret.path]
    IN  (ret.op = "read" /\ U16Rescaled(ret.path)) =>
            /\ ret.out.raised = "none"
            /\ ~ret.rescale => ret.out.px = r.data.px
            /\ ret.rescale =>
                  ret.out.px = [i \in 1..Len(r.data.px) |->
                                   Affine(r.data.px[i], r.slope, r.offset)]

\* C16 as amended: a uint16 array written with rescale=True and slope # 0 is
\* stored verbatim under the description of the given slope and offset, and
\* read back unchanged with rescale=False; when slope and offset are finite
\* it is read back with rescale=True as sample * s + o, where s and o are
\* the slope and the offset rounded to 7 significant digits.
C16_U16StoredVerbatim ==
    /\ \A p \in Paths :
          U16Rescaled(p) =>
              /\ fs[p].h = req[p].data.h /\ fs[p].w = req[p].data.w
              /\ [i \in 1..Len(fs[p].px) |-> FromInt(fs[p].px[i])] = req[p].data.px
              /\ fs[p].tag = Tag(Description(req[p].slope, req[p].offset))
    /\ LET r == req[ret.path]
       IN  (ret.op = "read" /\ U16Rescaled(ret.path)) =>
               /\ ~ret.rescale => ret.out.raised = "none" /\ ret.out.px = r.data.px
               /\ (ret.rescale /\ IsFinite(r.slope) /\ IsFinite(r.offset)) =>
                     /\ ret.out.raised = "none"
                     /\ ret.out.px =
                           [i \in 1..Len(r.data.px) |->
                               FAdd(FMul(r.data.px[i], RoundSig(r.slope)),
                                    RoundSig(r.offset))]

\* the uint16 array [[0, 200], [65535, 1]] written with rescale=True under
\* slope 0.5 and offset 100 is stored as it is and has been read back with
\* rescale=True as [[100, 200], [32867.5, 100.5]]
C16_Witness ==
    /\ ret.op = "read" /\ ret.rescale /\ U16Rescaled(ret.path)
    /\ req[ret.path].slope = Num(5, -1) /\ req[ret.path].offset = Num(100, 0)
    /\ fs[ret.path].px = <<0, 200, U16Max, 1>>
    /\ ret.out.px = <<Num(100, 0), Num(200, 0), Num(328675, -1), Num(1005, -1)>>

\* the files that the call write_xre_tif(path, **r) can leave at a path where
\* no file existed
Fresh(r) == {o.file : o \in write_xre_tif(NoFile, r.data, r.rescale, r.slope, r.offset)}

\* C17: after any sequence of write_xre_tif calls on a path, the file there is
\* one that the last call that returned produces on an empty path (shape,
\* samples and description are those of that call; nothing of an earlier
\* file is left), and when that call had the default slope and offset,
\* get_metadata reports its shape with slope 1.0 and offset 0.0.
C17_LastWriteWins ==
    /\ \A p \in Paths : req[p].valid => fs[p] \in Fresh(req[p])
    /\ LET r == req[ret.path]
       IN  (ret.op = "get_metadata" /\ r.valid /\ r.slope = One /\ r.offset = Zero) =>
               /\ ret.out.raised = "none"
               /\ ret.out.h = r.data.h /\ ret.out.w = r.data.w
               /\ ret.out.slope = One /\ ret.out.offset = Zero

\* a file written under another shape and another calibration has been
\* written again with the default slope and offset, and get_metadata has
\* reported slope 1.0 and offset 0.0
C17_Witness ==
    /\ ret.op = "get_metadata" /\ replaced[ret.path]
    /\ req[ret.path].slope = One /\ req[ret.path].offset = Zero
    /\ ret.out.raised = "none" /\ ret.out.slope = One /\ ret.out.offset = Zero

\* C14: with two callers on distinct paths whose calls interleave step by
\* step, no step of the other caller changes the file of a caller; every
\* read_xre_tif and get_metadata call that has ended returned what the call
\* returns when run alone on the file it found, and every write_xre_tif
\* call that has ended left at its path, with its result, what one run of
\* the call alone leaves there.
C14_CallsRunAsAlone ==
    \A c \in Callers :
        LET call == calls[c]
            file == fs[PathOf(c)]
            r == call.args
        IN  /\ call.op \in {"read", "get_metadata"} => file = call.start
            /\ (call.op = "write" /\ call.pc = "convert") => file = call.start
            /\ (call.pc = "done" /\ call.op = "read") =>
                  call.out = read_xre_tif(call.start, call.rescale)
            /\ (call.pc = "done" /\ call.op = "get_metadata") =>
                  call.out = get_metadata(call.start)
            /\ (call.pc = "done" /\ call.op = "write") =>
                  /\ call.out.raised \in {"none", "ValueError"}
                  /\ [raised |-> call.out.raised, file |-> file]
                        \in write_xre_tif(call.start, r.data, r.rescale, r.slope, r.offset)

\* each caller has ended a call during which the other caller ran: a
\* write_xre_tif call on path "a" and a read_xre_tif call on path "b" that
\* returned the array written there before
C14_Witness ==
    /\ calls["c1"].pc = "done" /\ calls["c1"].op = "write" /\ calls["c1"].overlap
    /\ calls["c1"].out.raised = "none" /\ fs["a"].px = <<0, 201>>
    /\ calls["c2"].pc = "done" /\ calls["c2"].op = "read" /\ calls["c2"].overlap
    /\ calls["c2"].out.raised = "none" /\ calls["c2"].out.px = <<FromInt(7)>>

\* C15: a caller that is not inside a call holds no open file handle,
\* whether its last call returned or raised.
C15_HandleReleased ==
    \A c \in Callers : ~Busy(c) => ~calls[c].handle

\* a read_xre_tif call has opened its file, failed with ValueError while
\* parsing the description, and holds no handle
C15_Witness ==
    \E c \in Callers :
        /\ calls[c].pc = "done" /\ calls[c].op = "read" /\ calls[c].acquired
        /\ calls[c].out.raised = "ValueError" /\ ~calls[c].handle

\* C13 as stated: for every sample and every calibration with slope # 0, the
\* sample read with rescale=True and written back with rescale=True under
\* the same slope and offset is stored as the same sample.
C13_Original == trip.pc = "written" => trip.stored = trip.sample

\* C13 as amended: the sample is stored back unchanged whenever
\* sample * slope and sample * slope + offset are computed in float32 without
\* rounding, as for slope 0.5 and offset 100.
C13_ExactRoundTrip ==
    (trip.pc = "written" /\ trip.exact) => trip.stored = trip.sample

\* sample 200 under slope 0.5 and offset 100 has been read as 200.0 and
\* stored back as 200
C13_Witness ==
    /\ trip.pc = "written" /\ trip.exact
    /\ trip.slope = Num(5, -1) /\ trip.offset = Num(100, 0) /\ trip.sample = 200
    /\ trip.physical = F32FromInt(200) /\ trip.stored = 200

=============================================================================
